---- MODULE Spec2Model ----
(***************************************************************************)
(* Model of python/ray_flamegraph.py: the interactive recording session    *)
(* (prerequisite check, mode selection, attach-mode target resolution,     *)
(* remote recording, conversion, pull, rendering, presentation).           *)
(*                                                                         *)
(* Python strings that the program inspects character by character         *)
(* (strip, split, indexing) are sequences of one-character strings; the    *)
(* commands the program formats are TLA+ strings built by concatenation.   *)
(* External tools are opaque: their output and exit status are chosen      *)
(* nondeterministically.                                                   *)
(***************************************************************************)
EXTENDS FiniteSets, Integers, Sequences, TLC

VARIABLES
    pc,           \* position of main()
    exit_status,  \* <<>> while the program runs, <<n>> once it has exited with n
    path,         \* executables found on the host's search path
    prompted,     \* the mode menu has been printed and the choice asked for
    mode,         \* local `mode` (stripped input)
    app,          \* local `app` (stripped input)
    name,         \* local `name` (stripped input)
    ps_out,       \* local `ps_out`
    pid,          \* local `pid`
    record_cmd,   \* local `record_cmd`
    rec_proc,     \* the Popen handle of the recording and its process
    key,          \* input() of line 83 has returned a line
    collapse,     \* the Popen handle of inferno-collapse-perf and its process
    rcs,          \* actual exit status of each external tool, <<>> if none yet
    calls,        \* argv of every external process started, in order
    svg,          \* state of the local file SVG_FILE in this run
    viewer        \* URL handed to the default viewer, "" if none

vars == <<pc, exit_status, path, prompted, mode, app, name, ps_out, pid,
          record_cmd, rec_proc, key, collapse, rcs, calls, svg, viewer>>

(***************************************************************************)
(* Bounds                                                                  *)
(***************************************************************************)
MaxModeLen == 2
MaxAppLen  == 2
MaxNameLen == 2
MaxOutLen  == 3

(***************************************************************************)
(* Program constants                                                       *)
(***************************************************************************)
PERF_DATA == "/tmp/perf.data"
PERF_TXT  == "/tmp/perf.script"
SVG_FILE  == "/tmp/flamegraph.svg"

SIGTERM == 15

HostTools == {"sdb", "inferno-flamegraph", "inferno-collapse-perf"}
ExtTools  == {"query", "record", "convert", "pull", "collapse", "flamegraph"}

(***************************************************************************)
(* Input alphabets                                                         *)
(***************************************************************************)
ModeChars == {"1", "2", "3", "4", " "}
AppChars  == {"a", "-", " "}
NameChars == {"r", "'", " "}
OutChars  == {"1", "2", " ", "\n"}

SeqsUpTo(S, n) == UNION {[1..k -> S] : k \in 0..n}

ModeLines == SeqsUpTo(ModeChars, MaxModeLen)
AppLines  == SeqsUpTo(AppChars, MaxAppLen)
NameLines == SeqsUpTo(NameChars, MaxNameLen)
PsOutputs == SeqsUpTo(OutChars, MaxOutLen)

(***************************************************************************)
(* Python string operations                                                *)
(***************************************************************************)
IsSpace(c) == c \in {" ", "\n"}

RECURSIVE LStrip(_)
LStrip(s) ==
    IF s # <<>> /\ IsSpace(Head(s)) THEN LStrip(Tail(s)) ELSE s

RECURSIVE RStrip(_)
RStrip(s) ==
    IF s # <<>> /\ IsSpace(s[Len(s)]) THEN RStrip(SubSeq(s, 1, Len(s) - 1)) ELSE s

\* str.strip()
Strip(s) == RStrip(LStrip(s))

\* the maximal run of non-whitespace characters at the front of s
RECURSIVE Word(_)
Word(s) ==
    IF s = <<>> \/ IsSpace(Head(s)) THEN <<>> ELSE <<Head(s)>> \o Word(Tail(s))

\* str.split() with no separator: the whitespace-delimited words, in order
RECURSIVE Split(_)
Split(s) ==
    LET t == LStrip(s)
        w == Word(t)
    IN  IF t = <<>> THEN <<>>
        ELSE <<w>> \o Split(SubSeq(t, Len(w) + 1, Len(t)))

\* the Python string made of the characters of s
RECURSIVE Join(_)
Join(s) == IF s = <<>> THEN "" ELSE Head(s) \o Join(Tail(s))

\* s.replace("'", "'\"'\"'")
RECURSIVE EscapeQuotes(_)
EscapeQuotes(s) ==
    IF s = <<>> THEN ""
    ELSE (IF Head(s) = "'" THEN "'\"'\"'" ELSE Head(s)) \o EscapeQuotes(Tail(s))

\* characters shlex.quote leaves alone, among those of the alphabets
SafeChars == {"r", "a", "-", "1", "2", "3", "4"}

\* shlex.quote(s)
ShlexQuote(s) ==
    IF s = <<>> THEN "''"
    ELSE IF \A i \in 1..Len(s) : s[i] \in SafeChars THEN Join(s)
    ELSE "'" \o EscapeQuotes(s) \o "'"

(***************************************************************************)
(* check_prerequisites                                                     *)
(***************************************************************************)
Missing_sdbOnly(p) ==
    IF "sdb" \notin p THEN <<"sdb">> ELSE <<>>

\* the list `missing` built by check_prerequisites, by tool name
Missing(p) ==
    (IF "sdb" \notin p THEN <<"sdb">> ELSE <<>>)
    \o (IF "inferno-flamegraph" \notin p \/ "inferno-collapse-perf" \notin p
        THEN <<"inferno">> ELSE <<>>)

(***************************************************************************)
(* Command construction                                                    *)
(***************************************************************************)
perf_opts == "-F 99 --call-graph dwarf -g -o " \o PERF_DATA

PsCmd(n) ==
    "ps -eo pid,comm,args | grep '[" \o n[1] \o "]" \o ShlexQuote(Tail(n)) \o "$'"

RecordCmd_swapped(m, a, p) ==
    IF m = <<"1">> THEN "perf record " \o perf_opts \o " -- " \o Join(a)
    ELSE IF m = <<"2">> THEN "perf record " \o perf_opts \o " -a"
    ELSE "perf record " \o perf_opts \o " -p " \o Join(p)

\* record_cmd as built in the branch of mode m
RecordCmd(m, a, p) ==
    IF m = <<"1">> THEN "perf record " \o perf_opts \o " -- " \o Join(a)
    ELSE IF m = <<"2">> THEN "perf record " \o perf_opts \o " -p " \o Join(p)
    ELSE "perf record " \o perf_opts \o " -a"

\* `not ps_out.strip()`
NoMatch(out) == Strip(out) = <<>>

ResolvePid_last(out) == Split(out)[Len(Split(out))]

\* `ps_out.split()[0]`
ResolvePid(out) == Split(out)[1]

ValidMode_lenient(m) == TRUE

\* the mode is one of the three branches; anything else reaches the else branch
ValidMode(m) == m \in {<<"1">>, <<"2">>, <<"3">>}

CheckFails_ignored(rc) == FALSE

\* subprocess.check_call / check_output raise CalledProcessError on this status
CheckFails(rc) == rc # 0

(***************************************************************************)
(* Initial state                                                           *)
(***************************************************************************)
NoProc == [state |-> "none", term |-> FALSE, waited |-> FALSE]

Init ==
    /\ pc = "check"
    /\ exit_status = <<>>
    /\ path \in SUBSET HostTools
    /\ prompted = FALSE
    /\ mode = <<>>
    /\ app = <<>>
    /\ name = <<>>
    /\ ps_out = <<>>
    /\ pid = <<>>
    /\ record_cmd = ""
    /\ rec_proc = NoProc
    /\ key = FALSE
    /\ collapse = NoProc
    /\ rcs = [t \in ExtTools |-> <<>>]
    /\ calls = <<>>
    /\ svg = "untouched"
    /\ viewer = ""

\* sys.exit(1), or an exception that leaves main(): the interpreter exits with 1
Abort ==
    /\ pc' = "aborted"
    /\ exit_status' = <<1>>

Started(argv) == calls' = Append(calls, argv)

Returned(t, rc) == rcs' = [rcs EXCEPT ![t] = <<rc>>]

(***************************************************************************)
(* main(), lines 41-77: prerequisites, mode selection, command building    *)
(***************************************************************************)
\* line 41: check_prerequisites()
CheckPrerequisites ==
    /\ pc = "check"
    /\ IF Missing(path) # <<>>
       THEN Abort
       ELSE pc' = "read_mode" /\ UNCHANGED exit_status
    /\ UNCHANGED <<path, prompted, mode, app, name, ps_out, pid, record_cmd,
                   rec_proc, key, collapse, rcs, calls, svg, viewer>>

\* lines 43-47: the menu and input("Choice [1/2/3]: ").strip()
ReadMode ==
    /\ pc = "read_mode"
    /\ prompted' = TRUE
    /\ \/ \E line \in ModeLines :
            /\ mode' = Strip(line)
            /\ pc' = "dispatch"
            /\ UNCHANGED exit_status
       \/ \* end of input or interrupt: input() raises
          /\ Abort
          /\ UNCHANGED mode
    /\ UNCHANGED <<path, app, name, ps_out, pid, record_cmd, rec_proc, key,
                   collapse, rcs, calls, svg, viewer>>

\* lines 52, 56, 72-77: the if / elif / elif / else on mode
Dispatch ==
    /\ pc = "dispatch"
    /\ IF ~ValidMode(mode)
       THEN Abort /\ UNCHANGED record_cmd
       ELSE /\ UNCHANGED exit_status
            /\ IF mode = <<"1">> THEN pc' = "read_app" /\ UNCHANGED record_cmd
               ELSE IF mode = <<"2">> THEN pc' = "read_name" /\ UNCHANGED record_cmd
               ELSE pc' = "launch" /\ record_cmd' = RecordCmd(mode, app, pid)
    /\ UNCHANGED <<path, prompted, mode, app, name, ps_out, pid, rec_proc, key,
                   collapse, rcs, calls, svg, viewer>>

\* lines 53-54: spawn mode
ReadApp ==
    /\ pc = "read_app"
    /\ \/ \E line \in AppLines :
            /\ app' = Strip(line)
            /\ record_cmd' = RecordCmd(mode, app', pid)
            /\ pc' = "launch"
            /\ UNCHANGED exit_status
       \/ /\ Abort
          /\ UNCHANGED <<app, record_cmd>>
    /\ UNCHANGED <<path, prompted, mode, name, ps_out, pid, rec_proc, key,
                   collapse, rcs, calls, svg, viewer>>

\* lines 58-62: attach mode, the name and the query command (name[0] raises
\* IndexError on an empty name)
ReadName ==
    /\ pc = "read_name"
    /\ \/ \E line \in NameLines :
            /\ name' = Strip(line)
            /\ IF name' = <<>>
               THEN Abort
               ELSE pc' = "query" /\ UNCHANGED exit_status
       \/ /\ Abort
          /\ UNCHANGED name
    /\ UNCHANGED <<path, prompted, mode, app, ps_out, pid, record_cmd, rec_proc,
                   key, collapse, rcs, calls, svg, viewer>>

RunQuery_unchecked ==
    /\ pc = "query"
    /\ Started(<<"sdb", "shell", PsCmd(name)>>)
    /\ \E out \in PsOutputs, rc \in {0, 1} :
          /\ Returned("query", rc)
          /\ IF CheckFails(rc)
             THEN Abort /\ UNCHANGED <<ps_out, pid, record_cmd>>
             ELSE /\ ps_out' = out
                  /\ pid' = Word(LStrip(out))
                  /\ record_cmd' = RecordCmd(mode, app, pid')
                  /\ pc' = "launch"
                  /\ UNCHANGED exit_status
    /\ UNCHANGED <<path, prompted, mode, app, name, rec_proc, key, collapse, svg, viewer>>

\* lines 63-70: run_sdb(ps_cmd), the no-match exit, pid and record_cmd
RunQuery ==
    /\ pc = "query"
    /\ Started(<<"sdb", "shell", PsCmd(name)>>)
    /\ \E out \in PsOutputs, rc \in {0, 1} :
          /\ Returned("query", rc)
          /\ IF CheckFails(rc)
             THEN Abort /\ UNCHANGED <<ps_out, pid, record_cmd>>
             ELSE /\ ps_out' = out
                  /\ IF NoMatch(out) \/ Split(out) = <<>>  \* sys.exit(1); [0] would raise
                     THEN Abort /\ UNCHANGED <<pid, record_cmd>>
                     ELSE /\ pid' = ResolvePid(out)
                          /\ record_cmd' = RecordCmd(mode, app, pid')
                          /\ pc' = "launch"
                          /\ UNCHANGED exit_status
    /\ UNCHANGED <<path, prompted, mode, app, name, rec_proc, key, collapse, svg, viewer>>

(***************************************************************************)
(* main(), lines 79-85: the recording session                              *)
(***************************************************************************)
\* line 81: rec_proc = subprocess.Popen(["sdb", "shell", record_cmd], ...)
Launch ==
    /\ pc = "launch"
    /\ Started(<<"sdb", "shell", record_cmd>>)
    /\ rec_proc' = [rec_proc EXCEPT !.state = "running"]
    /\ pc' = "wait_key"
    /\ UNCHANGED <<exit_status, path, prompted, mode, app, name, ps_out, pid,
                   record_cmd, key, collapse, rcs, svg, viewer>>

\* the recording process ends: on its own with any status, or, once SIGTERM
\* has been delivered to it, also killed by the signal (status -SIGTERM)
RecExits ==
    /\ rec_proc.state \in {"running", "signalled"}
    /\ \E rc \in {0, 1, -SIGTERM} :
          /\ rc = -SIGTERM => rec_proc.state = "signalled"
          /\ Returned("record", rc)
    /\ rec_proc' = [rec_proc EXCEPT !.state = "exited"]
    /\ UNCHANGED <<pc, exit_status, path, prompted, mode, app, name, ps_out, pid,
                   record_cmd, key, collapse, calls, svg, viewer>>

\* line 83: input() returns a line
KeyPress ==
    /\ pc = "wait_key"
    /\ key' = TRUE
    /\ pc' = "terminate"
    /\ UNCHANGED <<exit_status, path, prompted, mode, app, name, ps_out, pid,
                   record_cmd, rec_proc, collapse, rcs, calls, svg, viewer>>

\* line 83: input() raises EOFError (end of standard input) or
\* KeyboardInterrupt; nothing catches it and the interpreter exits
InputFails ==
    /\ pc = "wait_key"
    /\ Abort
    /\ UNCHANGED <<path, prompted, mode, app, name, ps_out, pid, record_cmd,
                   rec_proc, key, collapse, rcs, calls, svg, viewer>>

\* line 84: rec_proc.terminate(); a process that has already exited gets no signal
Terminate ==
    /\ pc = "terminate"
    /\ rec_proc' = [rec_proc EXCEPT
                      !.term = TRUE,
                      !.state = IF @ = "running" THEN "signalled" ELSE @]
    /\ pc' = "wait"
    /\ UNCHANGED <<exit_status, path, prompted, mode, app, name, ps_out, pid,
                   record_cmd, key, collapse, rcs, calls, svg, viewer>>

Wait_poll ==
    /\ pc = "wait"
    /\ rec_proc' = [rec_proc EXCEPT !.waited = (rec_proc.state = "exited")]
    /\ pc' = "convert"
    /\ UNCHANGED <<exit_status, path, prompted, mode, app, name, ps_out, pid,
                   record_cmd, key, collapse, rcs, calls, svg, viewer>>

\* line 85: rec_proc.wait() blocks until the process has exited; the status
\* it returns is dropped
Wait ==
    /\ pc = "wait"
    /\ rec_proc.state = "exited"
    /\ rec_proc' = [rec_proc EXCEPT !.waited = TRUE]
    /\ pc' = "convert"
    /\ UNCHANGED <<exit_status, path, prompted, mode, app, name, ps_out, pid,
                   record_cmd, key, collapse, rcs, calls, svg, viewer>>

(***************************************************************************)
(* main(), lines 87-106: conversion, pull, rendering, presentation         *)
(***************************************************************************)
\* line 88: check_call(["sdb", "shell", "perf script -i ... > ..."])
Convert ==
    /\ pc = "convert"
    /\ Started(<<"sdb", "shell", "perf script -i " \o PERF_DATA \o " > " \o PERF_TXT>>)
    /\ \E rc \in {0, 1} :
          /\ Returned("convert", rc)
          /\ IF CheckFails(rc) THEN Abort ELSE pc' = "pull" /\ UNCHANGED exit_status
    /\ UNCHANGED <<path, prompted, mode, app, name, ps_out, pid, record_cmd,
                   rec_proc, key, collapse, svg, viewer>>

\* line 91: check_call(["sdb", "pull", PERF_TXT, PERF_TXT])
Pull ==
    /\ pc = "pull"
    /\ Started(<<"sdb", "pull", PERF_TXT, PERF_TXT>>)
    /\ \E rc \in {0, 1} :
          /\ Returned("pull", rc)
          /\ IF CheckFails(rc) THEN Abort ELSE pc' = "open_svg" /\ UNCHANGED exit_status
    /\ UNCHANGED <<path, prompted, mode, app, name, ps_out, pid, record_cmd,
                   rec_proc, key, collapse, svg, viewer>>

\* line 94: open(SVG_FILE, "w") creates or truncates the file
OpenSvg ==
    /\ pc = "open_svg"
    /\ svg' = "truncated"
    /\ pc' = "collapse"
    /\ UNCHANGED <<exit_status, path, prompted, mode, app, name, ps_out, pid,
                   record_cmd, rec_proc, key, collapse, rcs, calls, viewer>>

\* lines 95-98: collapse = subprocess.Popen(["inferno-collapse-perf", PERF_TXT], ...)
LaunchCollapse ==
    /\ pc = "collapse"
    /\ Started(<<"inferno-collapse-perf", PERF_TXT>>)
    /\ collapse' = [collapse EXCEPT !.state = "running"]
    /\ pc' = "flamegraph"
    /\ UNCHANGED <<exit_status, path, prompted, mode, app, name, ps_out, pid,
                   record_cmd, rec_proc, key, rcs, svg, viewer>>

\* the collapse process closes its standard output (the pipe's only write
\* end); this happens no later than its exit
CollapseCloses ==
    /\ collapse.state = "running"
    /\ collapse' = [collapse EXCEPT !.state = "closed"]
    /\ UNCHANGED <<pc, exit_status, path, prompted, mode, app, name, ps_out, pid,
                   record_cmd, rec_proc, key, rcs, calls, svg, viewer>>

\* the collapse process ends; nothing in main() waits for it or reads its status
CollapseExits ==
    /\ collapse.state \in {"running", "closed"}
    /\ \E rc \in {0, 1} : Returned("collapse", rc)
    /\ collapse' = [collapse EXCEPT !.state = "exited"]
    /\ UNCHANGED <<pc, exit_status, path, prompted, mode, app, name, ps_out, pid,
                   record_cmd, rec_proc, key, calls, svg, viewer>>

\* lines 99-103: check_call(["inferno-flamegraph"], stdin=collapse.stdout,
\* stdout=outsvg). The renderer succeeds only after end of file on its input;
\* it may fail at any time. Leaving the with block closes the file.
Flamegraph ==
    /\ pc = "flamegraph"
    /\ Started(<<"inferno-flamegraph">>)
    /\ \E rc \in {0, 1} :
          /\ rc = 0 => collapse.state \in {"closed", "exited"}
          /\ Returned("flamegraph", rc)
          /\ IF CheckFails(rc)
             THEN Abort /\ UNCHANGED svg
             ELSE pc' = "report" /\ svg' = "written" /\ UNCHANGED exit_status
    /\ UNCHANGED <<path, prompted, mode, app, name, ps_out, pid, record_cmd,
                   rec_proc, key, collapse, viewer>>

\* line 105: print("Flamegraph generated: ...")
Report ==
    /\ pc = "report"
    /\ pc' = "viewer"
    /\ UNCHANGED <<exit_status, path, prompted, mode, app, name, ps_out, pid,
                   record_cmd, rec_proc, key, collapse, rcs, calls, svg, viewer>>

\* line 106: webbrowser.open(...); its result is dropped; main() returns and
\* the interpreter exits with status 0
OpenViewer ==
    /\ pc = "viewer"
    /\ viewer' = "file://" \o SVG_FILE
    /\ pc' = "done"
    /\ exit_status' = <<0>>
    /\ UNCHANGED <<path, prompted, mode, app, name, ps_out, pid, record_cmd,
                   rec_proc, key, collapse, rcs, calls, svg>>

Next ==
    \/ CheckPrerequisites
    \/ ReadMode
    \/ Dispatch
    \/ ReadApp
    \/ ReadName
    \/ RunQuery
    \/ Launch
    \/ RecExits
    \/ KeyPress
    \/ InputFails
    \/ Terminate
    \/ Wait
    \/ Convert
    \/ Pull
    \/ OpenSvg
    \/ LaunchCollapse
    \/ CollapseCloses
    \/ CollapseExits
    \/ Flamegraph
    \/ Report
    \/ OpenViewer

Spec == Init /\ [][Next]_vars

(***************************************************************************)
(* Properties                                                              *)
(***************************************************************************)
Exited == pc \in {"done", "aborted"}

Launched == rec_proc.state # "none"

NonZero(t) == rcs[t] # <<>> /\ rcs[t] # <<0>>

Count(argv) == Cardinality({i \in DOMAIN calls : calls[i] = argv})

AllSpace(s) == \A i \in DOMAIN s : s[i] \in {" ", "\n"}

RecordPrefix == "perf record -F 99 --call-graph dwarf -g -o /tmp/perf.data"

ConvertArgv == <<"sdb", "shell", "perf script -i /tmp/perf.data > /tmp/perf.script">>

PullArgv == <<"sdb", "pull", "/tmp/perf.script", "/tmp/perf.script">>

\* the command of the recording process that was started
LaunchedCmd == calls[IF mode = <<"2">> THEN 2 ELSE 1]

\* C1: the program never exits with status 0 in a run in which some external
\* tool it invoked (query, recording, conversion, pull, collapse, rendering)
\* returned a non-zero status.
C1_ZeroExitMeansAllToolsZero ==
    exit_status = <<0>> => \A t \in ExtTools : ~NonZero(t)

\* C2: when a required host tool is absent the program exits non-zero from
\* the prerequisite check: no external command is started, the mode is not
\* asked for and no local file is written.
C2_MissingToolExitsBeforeSideEffects ==
    path # HostTools =>
        /\ pc \in {"check", "aborted"}
        /\ pc = "aborted" => exit_status = <<1>>
        /\ calls = <<>>
        /\ ~prompted
        /\ ~Launched
        /\ svg = "untouched"

C2_Witness ==
    /\ "sdb" \notin path
    /\ pc = "aborted"
    /\ exit_status = <<1>>

\* C3: in attach mode, when the process query succeeds with empty or
\* whitespace-only output, the program exits non-zero and the query stays the
\* only external command of the run: no recording, conversion, pull or
\* rendering.
C3_NoMatchNoRecording ==
    (mode = <<"2">> /\ rcs["query"] = <<0>> /\ AllSpace(ps_out)) =>
        /\ pc = "aborted"
        /\ exit_status = <<1>>
        /\ ~Launched
        /\ Len(calls) = 1
        /\ svg = "untouched"

C3_Witness ==
    /\ mode = <<"2">>
    /\ rcs["query"] = <<0>>
    /\ ps_out # <<>>
    /\ AllSpace(ps_out)
    /\ pc = "aborted"

\* C4: the recording command that is launched is the fixed prefix
\* (frequency 99, dwarf call graph, output /tmp/perf.data) followed by exactly
\* one target clause: "-- <app>" in mode 1, "-p <pid>" in mode 2, "-a" in
\* mode 3.
C4_RecordCommandShape ==
    Launched =>
        /\ LaunchedCmd = <<"sdb", "shell", record_cmd>>
        /\ Count(<<"sdb", "shell", record_cmd>>) = 1
        /\ mode \in {<<"1">>, <<"2">>, <<"3">>}
        /\ mode = <<"1">> => record_cmd = RecordPrefix \o " -- " \o Join(app)
        /\ mode = <<"2">> => record_cmd = RecordPrefix \o " -p " \o Join(pid)
        /\ mode = <<"3">> =>
              record_cmd = "perf record -F 99 --call-graph dwarf -g -o /tmp/perf.data -a"

C4_Witness ==
    /\ mode = <<"3">>
    /\ pc = "wait_key"
    /\ rec_proc.state = "running"

\* the characters of s before its first newline
FirstLine(s) ==
    LET nl == {i \in DOMAIN s : s[i] = "\n"}
    IN  IF nl = {} THEN s
        ELSE SubSeq(s, 1, (CHOOSE i \in nl : \A j \in nl : i <= j) - 1)

\* the first space-delimited token of the line l (l holds one)
FirstToken(l) ==
    LET ns    == {i \in DOMAIN l : l[i] # " "}
        first == CHOOSE i \in ns : \A j \in ns : i <= j
        sp    == {i \in DOMAIN l : i > first /\ l[i] = " "}
        last  == IF sp = {} THEN Len(l)
                 ELSE (CHOOSE i \in sp : \A j \in sp : i <= j) - 1
    IN  SubSeq(l, first, last)

\* C5: in attach mode, when the query output starts with a matching line (a
\* line that is not blank), the resolved identifier is the first token of
\* that first line, whatever follows it, and the launched command is the fixed
\* prefix followed by "-p" and that identifier.
C5_PidIsFirstTokenOfFirstLine ==
    (mode = <<"2">> /\ rcs["query"] = <<0>> /\ ~AllSpace(FirstLine(ps_out))) =>
        /\ pid = FirstToken(FirstLine(ps_out))
        /\ pc # "aborted" \/ Launched
        /\ Launched =>
              calls[2] = <<"sdb", "shell",
                           RecordPrefix \o " -p " \o Join(FirstToken(FirstLine(ps_out)))>>

C5_Witness ==
    /\ mode = <<"2">>
    /\ ps_out = <<"1", "\n", "2">>
    /\ pid = <<"1">>
    /\ Launched

C7_PipelineOrder ==
    /\ Count(ConvertArgv) <= 1
    /\ Count(PullArgv) <= 1
    /\ rcs["convert"] # <<>> <=> Count(ConvertArgv) = 1
    /\ rcs["pull"] # <<>> <=> Count(PullArgv) = 1
    /\ rcs["pull"] # <<>> =>
          /\ rcs["convert"] = <<0>>
          /\ \E i, j \in DOMAIN calls :
                i < j /\ calls[i] = ConvertArgv /\ calls[j] = PullArgv
    /\ (svg # "untouched" \/ collapse.state # "none" \/ rcs["flamegraph"] # <<>>) =>
          /\ rcs["convert"] = <<0>>
          /\ rcs["pull"] = <<0>>
    /\ collapse.state # "none" =>
          /\ calls[Len(calls)] \in {<<"inferno-collapse-perf", "/tmp/perf.script">>,
                                    <<"inferno-flamegraph">>}
          /\ \E j \in DOMAIN calls :
                calls[j] = PullArgv /\ calls[j + 1][1] = "inferno-collapse-perf"
    /\ (NonZero("convert") \/ NonZero("pull")) =>
          /\ pc = "aborted"
          /\ exit_status = <<1>>
          /\ calls[Len(calls)] = (IF NonZero("convert") THEN ConvertArgv ELSE PullArgv)
          /\ svg = "untouched"
          /\ collapse.state = "none"
          /\ viewer = ""
    /\ svg = "written" => viewer \in {"", "file:///tmp/flamegraph.svg"}

C7_Witness ==
    /\ rcs["convert"] = <<0>>
    /\ NonZero("pull")
    /\ pc = "aborted"

\* C8: a mode choice that, stripped, is none of "1", "2", "3" makes the
\* program exit non-zero with no external command started, no recording, and
\* no conversion, pull or rendering.
C8_InvalidModeIsFatal ==
    (pc \notin {"check", "read_mode"} /\ mode \notin {<<"1">>, <<"2">>, <<"3">>}) =>
        /\ pc \in {"dispatch", "aborted"}
        /\ pc = "aborted" => exit_status = <<1>>
        /\ calls = <<>>
        /\ ~Launched
        /\ svg = "untouched"

C8_Witness ==
    /\ mode = <<"1", "2">>
    /\ pc = "aborted"
    /\ exit_status = <<1>>

\* C9: the only external process that may be outstanding while the program
\* goes on is the recording process; in particular the collapse process has
\* ended before the program reports the flame graph, opens the viewer or
\* exits.
C9_CollapseCompletedBeforeReport ==
    /\ ~(rec_proc.state \in {"running", "signalled"}
         /\ collapse.state \in {"running", "closed"})
    /\ (pc \in {"report", "viewer", "done", "aborted"} /\ collapse.state # "none") =>
          collapse.state = "exited"

\* C10: the program never exits leaving a launched recording process that it
\* did not ask to terminate and wait for.
C10_RecordingAlwaysTerminated ==
    (Exited /\ Launched) => (rec_proc.term /\ rec_proc.waited)

====
